---------------------------- MODULE Spec2Model ----------------------------
(***************************************************************************)
(* A model of the two programs of illumio2algosec:                         *)
(*   export_illumio_apps.py  submit / poll / fetch of the app labels and   *)
(*                           the write of IllumioApps.txt                  *)
(*   export_illumio_csv.py   label maps, traffic query, flow processing,   *)
(*                           deduplication and the CSV write               *)
(*                                                                         *)
(* Python values.  A str is the sequence of its characters, so that        *)
(* split, join, formatting and comparison are computed and not assumed.    *)
(* None in a str or int slot is <<"None">> (no str: "None" is no           *)
(* character); an int that may be None is <<"int", n>>; None in an object  *)
(* slot (workload, service) is the record NoObj.                           *)
(***************************************************************************)
EXTENDS Integers, Sequences, FiniteSets, TLC

VARIABLES
    prog,            \* which program runs: "apps" or "csv"
    pc,              \* the position of main
    exit_status,     \* the process exit status, meaningful once pc = "exit"
    outcome,         \* the return or raise that ended the run ("running" before)
    reported,        \* whether an error message or traceback was printed
    events,          \* the HTTP requests and sleeps so far, in order
    \* ---- export_illumio_apps
    env,             \* os.environ restricted to the five PCE_ variables
    cli,             \* args.api_key, args.api_secret
    auth,            \* client.auth
    job_location,    \* main's job_location
    job_status,      \* main's job_status (the last status response body)
    app_names,       \* main's app_names
    apps_file,       \* IllumioApps.txt: NoFile, or the lines written
    \* ---- export_illumio_csv
    args,            \* the parsed arguments the exporter reads
    pce_labels,      \* the labels the PCE holds
    query_file,      \* traffic-config.yaml: the selected traffic_config
    label_cache,     \* self.label_cache
    label_href_map,  \* self.label_href_map
    value_href_map,  \* self.value_href_map
    traffic_query,   \* the query handed to get_traffic_flows_async
    result,          \* the flows the PCE returned
    idx,             \* how many flows of result the loop has processed
    data,            \* the set data, as its elements
    csv_file         \* the output file: NoFile, or the rows written

vars == <<prog, pc, exit_status, outcome, reported, events,
          env, cli, auth, job_location, job_status, app_names, apps_file,
          args, pce_labels, query_file, label_cache, label_href_map,
          value_href_map, traffic_query, result, idx, data, csv_file>>

appsVars == <<env, cli, auth, job_location, job_status, app_names, apps_file>>
csvVars == <<args, pce_labels, query_file, label_cache, label_href_map,
             value_href_map, traffic_query, result, idx, data, csv_file>>

(***************************************************************************)
(* Bounds of the model.                                                    *)
(***************************************************************************)
MaxPolls == 3
MaxRecords == 3
MaxFlows == 2

(***************************************************************************)
(* Python values and str operations.                                       *)
(***************************************************************************)
None == <<"None">>
NoObj == [none |-> TRUE]
NoFile == [exists |-> FALSE]
EmptyStr == <<>>

Truthy(v) == v # None /\ v # EmptyStr

Range(s) == {s[i] : i \in 1..Len(s)}

\* the code point order of the characters the model uses
Alphabet == <<",", "-", "/", "0", "1", "2", "3", "4", "5", "6", "7", "8", "9", "=",
              "U", "a", "b", "c", "d", "e", "h", "i", "k", "l", "m", "n", "o", "p",
              "r", "s", "t", "u", "v", "w", "x">>

Ord(c) == CHOOSE i \in 1..Len(Alphabet) : Alphabet[i] = c

\* str < str
RECURSIVE StrLess(_, _)
StrLess(a, b) ==
    IF b = <<>> THEN FALSE
    ELSE IF a = <<>> THEN TRUE
    ELSE IF Head(a) = Head(b) THEN StrLess(Tail(a), Tail(b))
    ELSE Ord(Head(a)) < Ord(Head(b))

\* sep.join(parts)
RECURSIVE Join(_, _)
Join(sep, parts) ==
    IF parts = <<>> THEN <<>>
    ELSE IF Len(parts) = 1 THEN parts[1]
    ELSE parts[1] \o sep \o Join(sep, Tail(parts))

\* s.split(c) for a one-character separator c
RECURSIVE Split(_, _)
Split(s, c) ==
    IF \A i \in 1..Len(s) : s[i] # c THEN <<s>>
    ELSE LET k == CHOOSE i \in 1..Len(s) :
                      s[i] = c /\ \A j \in 1..(i - 1) : s[j] # c
         IN  <<SubSeq(s, 1, k - 1)>> \o Split(SubSeq(s, k + 1, Len(s)), c)

\* str(n) for an int n >= 0
Digits == <<"0", "1", "2", "3", "4", "5", "6", "7", "8", "9">>

RECURSIVE IntStr(_)
IntStr(n) ==
    IF n < 10 THEN <<Digits[n + 1]>>
    ELSE IntStr(n \div 10) \o <<Digits[(n % 10) + 1]>>

PyInt(n) == <<"int", n>>

\* what an f-string renders for an int-or-None
FormatValue(v) == IF v = None THEN <<"N", "o", "n", "e">> ELSE IntStr(v[2])

(***************************************************************************)
(* export_illumio_apps.py                                                  *)
(***************************************************************************)
EnvNames == {"PCE_FQDN", "PCE_ORG", "PCE_PORT", "PCE_API_KEY", "PCE_API_SECRET"}

\* os.getenv(name, default)
GetEnv(e, name, default) == IF e[name] = None THEN default ELSE e[name]

\* the defaults of PCE_FQDN, PCE_ORG and PCE_PORT, all truthy; the host
\* name is shortened, the ints 1 and 9443 are given as they are rendered
DefaultFqdn == <<"p", "c", "e">>
DefaultOrg == <<"1">>
DefaultPort == <<"9", "4", "4", "3">>

\* load_environment: required_vars
RequiredVars(e) ==
    [PCE_FQDN |-> GetEnv(e, "PCE_FQDN", DefaultFqdn),
     PCE_ORG |-> GetEnv(e, "PCE_ORG", DefaultOrg),
     PCE_PORT |-> GetEnv(e, "PCE_PORT", DefaultPort),
     PCE_API_KEY |-> GetEnv(e, "PCE_API_KEY", None),
     PCE_API_SECRET |-> GetEnv(e, "PCE_API_SECRET", None)]

\* load_environment: missing_vars
MissingVars(e) == {v \in EnvNames : ~Truthy(RequiredVars(e)[v])}

\* load_environment: (success, client), the client given by its auth pair
LoadEnvironment(e) ==
    IF MissingVars(e) # {}
    THEN <<FALSE, None>>
    ELSE <<TRUE, <<RequiredVars(e)["PCE_API_KEY"], RequiredVars(e)["PCE_API_SECRET"]>>>>

\* main: the command-line overrides of client.auth
OverrideAuth(a, c) ==
    LET a1 == IF Truthy(c.api_key) THEN <<c.api_key, a[2]>> ELSE a
    IN  IF Truthy(c.api_secret) THEN <<a1[1], c.api_secret>> ELSE a1

\* A response is a transport error (requests raised RequestException) or
\* carries a status code and what the call reads of it.
TransportError == [err |-> TRUE]

\* initiate_async_job: (success, job_location)
InitiateAsyncJob(resp) ==
    IF resp.err THEN <<FALSE, None>>
    ELSE IF resp.code = 202 THEN <<TRUE, resp.location>>
    ELSE <<FALSE, None>>

\* check_job_status: (success, json)
CheckJobStatus(resp) ==
    IF resp.err THEN <<FALSE, NoObj>>
    ELSE IF resp.code = 200 THEN <<TRUE, resp.json>>
    ELSE <<FALSE, NoObj>>

\* [item['value'] for item in json_data if 'value' in item]
RECURSIVE Values(_)
Values(json_data) ==
    IF json_data = <<>> THEN <<>>
    ELSE IF "value" \in DOMAIN Head(json_data)
         THEN <<Head(json_data).value>> \o Values(Tail(json_data))
         ELSE Values(Tail(json_data))

\* a slip: the list is left in the order of the payload
Unsorted(s) == s

\* sorted(list of str)
RECURSIVE Insert(_, _)
Insert(x, s) ==
    IF s = <<>> THEN <<x>>
    ELSE IF StrLess(x, Head(s)) THEN <<x>> \o s
    ELSE <<Head(s)>> \o Insert(x, Tail(s))

RECURSIVE Sorted(_)
Sorted(s) == IF s = <<>> THEN <<>> ELSE Insert(s[Len(s)], Sorted(SubSeq(s, 1, Len(s) - 1)))

\* get_job_results: (success, app_names)
GetJobResults(resp) ==
    IF resp.err THEN <<FALSE, <<>>>>
    ELSE IF resp.code = 200 THEN <<TRUE, Sorted(Values(resp.json))>>
    ELSE <<FALSE, <<>>>>

\* a slip: the job's own location is fetched instead of the result's
ResultsUrlIsJobLocation(status) == job_location

\* main: the argument of get_job_results
ResultsUrl(status) == status.result.href

\* time.sleep(5)
SleepSeconds == 5

(***************************************************************************)
(* What the environment of export_illumio_apps can be.                     *)
(***************************************************************************)
\* a variable is unset, set to '', or set to a value; a value of PCE_FQDN,
\* PCE_ORG or PCE_PORT is read exactly as its default is
EnvValues(name) ==
    IF name \in {"PCE_API_KEY", "PCE_API_SECRET"}
    THEN {None, EmptyStr, <<"e">>}
    ELSE {None, EmptyStr}
Envs == {e \in [EnvNames -> {None, EmptyStr, <<"e">>}] : \A n \in EnvNames : e[n] \in EnvValues(n)}
CliValues == {None, EmptyStr, <<"c">>}
Clis == [api_key : CliValues, api_secret : CliValues]

JobLocations == {<<"/", "1">>}
Hrefs == {<<"/", "r", "1">>, <<"/", "r", "2">>}
ErrorCodes == {401, 500}

SubmitResponses ==
    {TransportError}
    \cup {[err |-> FALSE, code |-> c, location |-> None] : c \in ErrorCodes \cup {200}}
    \cup {[err |-> FALSE, code |-> 202, location |-> l] : l \in JobLocations \cup {None, EmptyStr}}

InProgress == {"running"}

StatusBodies ==
    {[status |-> s, result |-> NoObj] : s \in InProgress \cup {"failed"}}
    \cup {[status |-> "done", result |-> [href |-> h]] : h \in Hrefs}

StatusResponses ==
    {TransportError}
    \cup {[err |-> FALSE, code |-> c, json |-> NoObj] : c \in ErrorCodes}
    \cup {[err |-> FALSE, code |-> 200, json |-> b] : b \in StatusBodies}

AppKey == <<"a", "p", "p">>
Web == <<"w", "e", "b">>
ResultItems ==
    {[key |-> AppKey, value |-> v] : v \in {Web, <<"d", "b">>}}
    \cup {[key |-> AppKey]}

RECURSIVE SeqsUpTo(_, _)
SeqsUpTo(S, n) ==
    IF n = 0 THEN {<<>>}
    ELSE LET shorter == SeqsUpTo(S, n - 1)
         IN  shorter \cup {Append(s, x) : s \in shorter, x \in S}

FetchResponses ==
    {TransportError}
    \cup {[err |-> FALSE, code |-> c, json |-> <<>>] : c \in ErrorCodes}
    \cup {[err |-> FALSE, code |-> 200, json |-> j] : j \in SeqsUpTo(ResultItems, MaxRecords)}

StatusChecks == Cardinality({i \in 1..Len(events) : events[i].op = "status"})

\* the history keeps the first MaxEvents events of a run: one submit, MaxPolls
\* in-progress checks with their sleeps, the last check and the fetch
MaxEvents == 2 * MaxPolls + 3
Log(e) == IF Len(events) < MaxEvents THEN Append(events, e) ELSE events

\* a slip: the loop gives up after MaxPolls checks
AttemptLimit(capped) == StatusChecks < MaxPolls

\* while True: the loop has no attempt limit of its own; capped says that
\* the server stops answering in-progress after MaxPolls checks
MayPollAgain(capped) == capped => StatusChecks < MaxPolls

(***************************************************************************)
(* The end of a run.  Returning from main ends the interpreter with status *)
(* 0; sys.exit(n) ends it with n; an exception nobody catches prints a     *)
(* traceback and ends it with status 1.                                    *)
(***************************************************************************)
Exit(status, how, printed) ==
    /\ pc' = "exit"
    /\ exit_status' = status
    /\ outcome' = how
    /\ reported' = (reported \/ printed)

ReturnFromMain(how, printed) == Exit(0, how, printed)

UncaughtException(how) == Exit(1, how, TRUE)

\* write_apps_to_file: the file after the call and the value returned; io is
\* what the file system does (open fails, a write fails after k lines, or ok)
WriteAppsToFile(names, old, io, k) ==
    CASE io = "open_error" -> <<old, FALSE>>
      [] io = "write_error" -> <<[exists |-> TRUE, lines |-> SubSeq(names, 1, k)], FALSE>>
      [] OTHER -> <<[exists |-> TRUE, lines |-> names], TRUE>>

\* main, lines 147-163: parse the arguments, load the environment, override
AppsLoad ==
    /\ prog = "apps" /\ pc = "start"
    /\ LET loaded == LoadEnvironment(env)
       IN  IF ~loaded[1]
           THEN /\ ReturnFromMain("config_error", TRUE)
                /\ UNCHANGED auth
           ELSE /\ auth' = OverrideAuth(loaded[2], cli)
                /\ pc' = "submit"
                /\ UNCHANGED <<exit_status, outcome, reported>>
    /\ UNCHANGED <<prog, events, env, cli, job_location, job_status, app_names,
                   apps_file, csvVars>>

\* a slip: a rejected submit is sent a second time
AppsSubmitRetried ==
    /\ prog = "apps" /\ pc = "submit"
    /\ \E resp \in SubmitResponses :
         LET r == InitiateAsyncJob(resp)
         IN  /\ events' = Append(events, [op |-> "submit", auth |-> auth, ok |-> r[1], resp |-> resp])
             /\ IF ~r[1] \/ ~Truthy(r[2])
                THEN /\ IF ~r[1] /\ events = <<>>
                        THEN pc' = "submit" /\ UNCHANGED <<exit_status, outcome, reported>>
                        ELSE ReturnFromMain("submit_failed", ~r[1])
                     /\ UNCHANGED job_location
                ELSE /\ job_location' = r[2]
                     /\ pc' = "poll"
                     /\ UNCHANGED <<exit_status, outcome, reported>>
    /\ UNCHANGED <<prog, env, cli, auth, job_status, app_names, apps_file, csvVars>>

\* main, lines 165-170: initiate the async job
AppsSubmit ==
    /\ prog = "apps" /\ pc = "submit"
    /\ \E resp \in SubmitResponses :
         LET r == InitiateAsyncJob(resp)
         IN  /\ events' = Append(events, [op |-> "submit", auth |-> auth, ok |-> r[1], resp |-> resp])
             /\ IF ~r[1] \/ ~Truthy(r[2])
                THEN /\ ReturnFromMain("submit_failed", ~r[1])
                     /\ UNCHANGED job_location
                ELSE /\ job_location' = r[2]
                     /\ pc' = "poll"
                     /\ UNCHANGED <<exit_status, outcome, reported>>
    /\ UNCHANGED <<prog, env, cli, auth, job_status, app_names, apps_file, csvVars>>

\* main, lines 173-185: one status check of the poll loop
CheckStatusStep(capped) ==
    /\ prog = "apps" /\ pc = "poll"
    /\ \E resp \in StatusResponses :
         LET r == CheckJobStatus(resp)
         IN  /\ (r[1] /\ r[2].status \in InProgress) => MayPollAgain(capped)
             /\ events' = Log([op |-> "status", location |-> job_location,
                            ok |-> r[1], json |-> r[2], resp |-> resp])
             /\ job_status' = r[2]
             /\ IF ~r[1]
                THEN ReturnFromMain("status_check_failed", TRUE)
                ELSE IF r[2].status = "done"
                THEN pc' = "fetch" /\ UNCHANGED <<exit_status, outcome, reported>>
                ELSE IF r[2].status = "failed"
                THEN ReturnFromMain("job_failed", TRUE)
                ELSE pc' = "sleep" /\ UNCHANGED <<exit_status, outcome, reported>>
    /\ UNCHANGED <<prog, env, cli, auth, job_location, app_names, apps_file, csvVars>>

\* one pass of the loop, against a server that reports the job in progress
\* at most MaxPolls times
AppsCheckStatus == CheckStatusStep(TRUE)

\* one pass of the loop, against a server that may report the job in
\* progress for ever
AppsCheckStatusUncapped == CheckStatusStep(FALSE)

\* a slip: the loop goes round without sleeping
AppsSleepSkipped ==
    /\ prog = "apps" /\ pc = "sleep"
    /\ pc' = "poll"
    /\ UNCHANGED <<prog, events, exit_status, outcome, reported, appsVars, csvVars>>

\* main, line 186: the sleep that ends an in-progress iteration
AppsSleep ==
    /\ prog = "apps" /\ pc = "sleep"
    /\ events' = Log([op |-> "sleep", seconds |-> SleepSeconds])
    /\ pc' = "poll"
    /\ UNCHANGED <<prog, exit_status, outcome, reported, appsVars, csvVars>>

\* a slip: an empty list of names is written too
AppsFetchWritesEmptyList ==
    /\ prog = "apps" /\ pc = "fetch"
    /\ \E resp \in FetchResponses :
         LET r == GetJobResults(resp)
         IN  /\ events' = Append(events, [op |-> "fetch", url |-> ResultsUrl(job_status),
                                          ok |-> r[1], resp |-> resp])
             /\ IF ~r[1]
                THEN /\ ReturnFromMain(IF r[1] THEN "no_app_names" ELSE "fetch_failed", ~r[1])
                     /\ UNCHANGED app_names
                ELSE /\ app_names' = r[2]
                     /\ pc' = "write"
                     /\ UNCHANGED <<exit_status, outcome, reported>>
    /\ UNCHANGED <<prog, env, cli, auth, job_location, job_status, apps_file, csvVars>>

\* main, lines 188-191: get and process the results
AppsFetch ==
    /\ prog = "apps" /\ pc = "fetch"
    /\ \E resp \in FetchResponses :
         LET r == GetJobResults(resp)
         IN  /\ events' = Append(events, [op |-> "fetch", url |-> ResultsUrl(job_status),
                                          ok |-> r[1], resp |-> resp])
             /\ IF ~r[1] \/ r[2] = <<>>
                THEN /\ ReturnFromMain(IF r[1] THEN "no_app_names" ELSE "fetch_failed", ~r[1])
                     /\ UNCHANGED app_names
                ELSE /\ app_names' = r[2]
                     /\ pc' = "write"
                     /\ UNCHANGED <<exit_status, outcome, reported>>
    /\ UNCHANGED <<prog, env, cli, auth, job_location, job_status, apps_file, csvVars>>

\* main, line 194: write the results; the value returned is dropped
AppsWrite ==
    /\ prog = "apps" /\ pc = "write"
    /\ \E io \in {"ok", "open_error", "write_error"}, k \in 0..Len(app_names) :
         LET w == WriteAppsToFile(app_names, apps_file, io, k)
         IN  /\ IF io = "write_error" THEN k < Len(app_names) ELSE k = 0
             /\ apps_file' = w[1]
             /\ ReturnFromMain(IF w[2] THEN "ok" ELSE "file_write_error", ~w[2])
    /\ UNCHANGED <<prog, events, env, cli, auth, job_location, job_status, app_names,
                   csvVars>>

(***************************************************************************)
(* export_illumio_csv.py                                                   *)
(***************************************************************************)
EmptyMap == [k \in {} |-> k]

\* d[k] = v
DictSet(d, k, v) == (k :> v) @@ d

Unknown == <<"U", "n", "k", "n", "o", "w", "n">>

\* a slip: the key and the value run together
CompositeKeyNoSeparator(label) == label.key \o label.value

\* build_label_maps, line 54: the key of value_href_map
CompositeKey(label) == label.key \o <<"=">> \o label.value

\* build_label_maps: the three maps after the loop over labels
RECURSIVE BuildLabelMaps(_, _)
BuildLabelMaps(labels, maps) ==
    IF labels = <<>> THEN maps
    ELSE LET label == Head(labels)
         IN  BuildLabelMaps(Tail(labels),
                 [label_cache |-> DictSet(maps.label_cache, label.href, label),
                  label_href_map |-> DictSet(maps.label_href_map, label.href,
                                             [key |-> label.key, value |-> label.value]),
                  value_href_map |-> DictSet(maps.value_href_map, CompositeKey(label),
                                             label.href)])

\* query_config.pop(name, [])
PopList(query_config, name) ==
    IF name \in DOMAIN query_config THEN query_config[name] ELSE <<>>

\* a slip: strings the map does not hold are passed over
RECURSIVE ResolveKnown(_, _)
ResolveKnown(map, strings) ==
    IF strings = <<>> THEN [raised |-> FALSE, hrefs |-> <<>>]
    ELSE LET rest == ResolveKnown(map, Tail(strings))
         IN  IF Head(strings) \in DOMAIN map
             THEN [raised |-> FALSE, hrefs |-> <<map[Head(strings)]>> \o rest.hrefs]
             ELSE rest

\* [self.value_href_map[s] for s in strings]: KeyError on the first string
\* the map does not hold
ResolveAll(map, strings) ==
    IF \E i \in 1..Len(strings) : strings[i] \notin DOMAIN map
    THEN [raised |-> TRUE]
    ELSE [raised |-> FALSE, hrefs |-> [i \in 1..Len(strings) |-> map[strings[i]]]]

FilterNames == <<"include_sources", "include_destinations",
                 "exclude_sources", "exclude_destinations">>

\* build_traffic_query: the TrafficQuery, or the KeyError raised
BuildTrafficQuery(query_config, map) ==
    LET resolved == [i \in 1..4 |-> ResolveAll(map, PopList(query_config, FilterNames[i]))]
    IN  IF \/ "start_date" \notin DOMAIN query_config
           \/ "end_date" \notin DOMAIN query_config
           \/ \E i \in 1..4 : resolved[i].raised
           \/ "policy_decisions" \notin DOMAIN query_config
        THEN [raised |-> TRUE]
        ELSE [raised |-> FALSE,
              start_date |-> query_config.start_date,
              end_date |-> query_config.end_date,
              include_sources |-> resolved[1].hrefs,
              include_destinations |-> resolved[2].hrefs,
              exclude_sources |-> resolved[3].hrefs,
              exclude_destinations |-> resolved[4].hrefs,
              policy_decisions |-> query_config.policy_decisions]

\* a slip: proto_map.get(proto), no default
ProtoNameNoDefault(proto) ==
    CASE proto = 6 -> <<"t", "c", "p">>
      [] proto = 17 -> <<"u", "d", "p">>
      [] proto = 1 -> <<"i", "c", "m", "p">>
      [] OTHER -> <<"N", "o", "n", "e">>

\* _get_service_info: proto_map.get(proto, proto), as the f-string renders it
ProtoName(proto) ==
    CASE proto = 6 -> <<"t", "c", "p">>
      [] proto = 17 -> <<"u", "d", "p">>
      [] proto = 1 -> <<"i", "c", "m", "p">>
      [] OTHER -> IntStr(proto)

\* _get_service_info; a service of the illumio library always has the
\* attribute port, which is None when the flow has no port
GetServiceInfo(service) ==
    IF service = NoObj \/ service.port = PyInt(0)
    THEN EmptyStr
    ELSE ProtoName(service.proto) \o <<"/">> \o FormatValue(service.port)

\* [self.label_cache[x.href] for x in workload.labels if x.href in self.label_cache]
RECURSIVE CachedLabels(_, _)
CachedLabels(refs, cache) ==
    IF refs = <<>> THEN <<>>
    ELSE IF Head(refs).href \in DOMAIN cache
         THEN <<cache[Head(refs).href]>> \o CachedLabels(Tail(refs), cache)
         ELSE CachedLabels(Tail(refs), cache)

\* dict(map(lambda x: (x.key, x.value), labels)): a later pair replaces an
\* earlier one with the same key
RECURSIVE LabelDict(_)
LabelDict(labels) ==
    IF labels = <<>> THEN EmptyMap
    ELSE DictSet(LabelDict(SubSeq(labels, 1, Len(labels) - 1)),
                 labels[Len(labels)].key, labels[Len(labels)].value)

\* a slip: the default is dropped for an empty string
DictGetOrEmpty(d, k, default) == IF k \in DOMAIN d THEN d[k] ELSE EmptyStr

\* label_dict.get(label, "Unknown")
DictGet(d, k, default) == IF k \in DOMAIN d THEN d[k] ELSE default

\* a slip: a destination without workload or labels gets the placeholders
GetAppNameAllUnknown(workload, a, cache) ==
    LET parsed_labels == Split(a.algosec_label, ",")
        label_dict == IF workload = NoObj THEN EmptyMap
                      ELSE LabelDict(CachedLabels(workload.labels, cache))
        applist == [i \in 1..Len(parsed_labels) |->
                       DictGet(label_dict, parsed_labels[i], Unknown)]
    IN  Join(a.label_concat, applist)

\* _get_app_name
GetAppName(workload, a, cache) ==
    IF workload = NoObj \/ workload.labels = <<>>
    THEN EmptyStr
    ELSE LET parsed_labels == Split(a.algosec_label, ",")
             label_dict == LabelDict(CachedLabels(workload.labels, cache))
             applist == [i \in 1..Len(parsed_labels) |->
                            DictGet(label_dict, parsed_labels[i], Unknown)]
         IN  Join(a.label_concat, applist)

\* a slip: an empty hostname falls back to the address
ProcessFlowNameFallback(flow, a, cache) ==
    LET src == flow.src.ip
        dst == flow.dst.ip
        service_name == EmptyStr
        src_name == IF flow.src.workload # NoObj /\ flow.src.workload.hostname # EmptyStr
                    THEN flow.src.workload.hostname ELSE src
        dst_name == IF flow.dst.workload # NoObj /\ flow.dst.workload.hostname # EmptyStr
                    THEN flow.dst.workload.hostname ELSE dst
        service == GetServiceInfo(flow.service)
        app == GetAppName(flow.dst.workload, a, cache)
    IN  IF service = EmptyStr THEN None
        ELSE IF app = EmptyStr \/ app = Unknown THEN None
        ELSE IF src_name = EmptyStr \/ dst_name = EmptyStr THEN None
        ELSE <<src, src_name, dst, dst_name, service, service_name, app>>

\* a slip: the service check is left out
ProcessFlowNoServiceCheck(flow, a, cache) ==
    LET src == flow.src.ip
        dst == flow.dst.ip
        service_name == EmptyStr
        src_name == IF flow.src.workload # NoObj THEN flow.src.workload.hostname ELSE src
        dst_name == IF flow.dst.workload # NoObj THEN flow.dst.workload.hostname ELSE dst
        service == GetServiceInfo(flow.service)
        app == GetAppName(flow.dst.workload, a, cache)
    IN  IF app = EmptyStr \/ app = Unknown THEN None
        ELSE IF src_name = EmptyStr \/ dst_name = EmptyStr THEN None
        ELSE <<src, src_name, dst, dst_name, service, service_name, app>>

\* process_flow: the row, or None
ProcessFlow(flow, a, cache) ==
    LET src == flow.src.ip
        dst == flow.dst.ip
        service_name == EmptyStr
        src_name == IF flow.src.workload # NoObj THEN flow.src.workload.hostname ELSE src
        dst_name == IF flow.dst.workload # NoObj THEN flow.dst.workload.hostname ELSE dst
        service == GetServiceInfo(flow.service)
        app == GetAppName(flow.dst.workload, a, cache)
    IN  IF service = EmptyStr THEN None
        ELSE IF app = EmptyStr \/ app = Unknown THEN None
        ELSE IF src_name = EmptyStr \/ dst_name = EmptyStr THEN None
        ELSE <<src, src_name, dst, dst_name, service, service_name, app>>

\* a slip: a list, to which every row is appended
ListAppend(s, row) == Append(s, row)

\* data.add(row): data is given by its elements, in the order they were added
SetAdd(s, row) == IF row \in Range(s) THEN s ELSE Append(s, row)

\* export_data, lines 152-154: one iteration of the loop over result
AddFlow(s, flow, a, cache) ==
    LET row == ProcessFlow(flow, a, cache)
    IN  IF row # None THEN SetAdd(s, row) ELSE s

\* export_data, lines 150-154: data after the loop over flows
RECURSIVE BuildExportSet(_, _, _)
BuildExportSet(flows, a, cache) ==
    IF flows = <<>> THEN <<>>
    ELSE AddFlow(BuildExportSet(SubSeq(flows, 1, Len(flows) - 1), a, cache),
                 flows[Len(flows)], a, cache)

\* export_data, lines 157-158
Header == <<"Source IP", "Source Name", "Destination IP", "Destination Name",
            "Service", "Service Name", "Application Name">>

\* the orders in which iterating a set of these elements can yield them
Orders(s) ==
    {p \in [1..Len(s) -> Range(s)] : \A i, j \in 1..Len(s) : p[i] = p[j] => i = j}

(***************************************************************************)
(* What the environment of export_illumio_csv can be.                      *)
(***************************************************************************)
Dash == <<"-">>
EnvKey == <<"e", "n", "v">>
AppEnv == AppKey \o <<",">> \o EnvKey

\* --pce-api-key and --pce-api-secret default to the environment's value or ''
CsvArgs ==
    {[pce_api_key |-> k, pce_api_secret |-> x,
      algosec_label |-> c[1], label_concat |-> c[2]] :
        k \in {EmptyStr, <<"k">>}, x \in {EmptyStr, <<"s">>},
        c \in {<<AppKey, Dash>>, <<AppEnv, Dash>>, <<AppEnv, EmptyStr>>}}

H1 == <<"h", "1">>
H2 == <<"h", "2">>
H3 == <<"h", "3">>
H4 == <<"h", "4">>

\* (env, "p=q") and ("env=p", q) are distinct pairs with one composite string
LabelApp == [href |-> H1, key |-> AppKey, value |-> Web]
LabelEnv == [href |-> H2, key |-> EnvKey, value |-> <<"p", "=", "q">>]
LabelEnvP == [href |-> H3, key |-> EnvKey \o <<"=", "p">>, value |-> <<"q">>]

\* label sets of the PCE, in the order labels.get() returns them; the pairs
\* (key, value) of a set are pairwise distinct
LabelLists ==
    {<<>>, <<LabelApp>>, <<LabelApp, LabelEnv>>, <<LabelApp, LabelEnvP>>,
     <<LabelApp, LabelEnv, LabelEnvP>>, <<LabelApp, LabelEnvP, LabelEnv>>}

\* a filter string of the query file, "key=value"
KeyEqualsValue(k, v) == k \o <<"=">> \o v

BaseQuery == [start_date |-> "2024-11-01", end_date |-> "2024-11-02",
              policy_decisions |-> <<"allowed">>]

QueryFiles ==
    {BaseQuery,
     [include_sources |-> <<KeyEqualsValue(AppKey, Web)>>,
      exclude_destinations |-> <<KeyEqualsValue(EnvKey, <<"p", "=", "q">>)>>] @@ BaseQuery,
     [include_destinations |-> <<KeyEqualsValue(AppKey, Web)>>,
      exclude_sources |-> <<<<"l", "o", "c", "=", "x">>>>] @@ BaseQuery}

Ip1 == <<"1">>
Ip2 == <<"2">>
HostS == <<"s">>
HostD == <<"d">>

Workload(hostname, hrefs) ==
    [hostname |-> hostname, labels |-> [i \in 1..Len(hrefs) |-> [href |-> hrefs[i]]]]

Service(proto, port) == [proto |-> proto, port |-> port]

Flow(src_workload, dst_workload, service, decision) ==
    [src |-> [ip |-> Ip1, workload |-> src_workload],
     dst |-> [ip |-> Ip2, workload |-> dst_workload],
     service |-> service, policy_decision |-> decision]

\* the flows a traffic query can return
Flows ==
    {Flow(NoObj, Workload(HostD, <<H1, H2>>), Service(6, PyInt(443)), "allowed"),
     Flow(NoObj, Workload(HostD, <<H1, H2>>), Service(6, PyInt(443)), "blocked"),
     Flow(Workload(HostS, <<>>), Workload(HostD, <<H1>>), Service(47, PyInt(10)), "allowed"),
     Flow(Workload(EmptyStr, <<>>), Workload(HostD, <<H2>>), Service(17, PyInt(53)), "allowed"),
     Flow(NoObj, Workload(HostD, <<H4>>), Service(6, PyInt(443)), "allowed"),
     Flow(NoObj, NoObj, Service(1, None), "allowed"),
     Flow(Workload(HostS, <<>>), Workload(EmptyStr, <<H1, H2>>), Service(6, PyInt(443)), "allowed"),
     Flow(Workload(HostS, <<>>), Workload(HostD, <<>>), NoObj, "allowed"),
     Flow(Workload(HostS, <<>>), Workload(HostD, <<>>), Service(6, PyInt(443)), "allowed"),
     Flow(Workload(HostS, <<>>), Workload(HostD, <<H1, H2>>), Service(6, PyInt(0)), "allowed")}

CredentialsMissing(a) == ~Truthy(a.pce_api_key) \/ ~Truthy(a.pce_api_secret)

\* export_data, lines 135-136: setup_pce_connection.  The PCE answers no
\* request that carries an empty key or secret.
CsvSetup ==
    /\ prog = "csv" /\ pc = "start"
    /\ \E r \in {"ok", "labels_get_raises", "connection_fails"} :
         /\ CredentialsMissing(args) => r = "labels_get_raises"
         /\ events' = events
                \o <<[op |-> "labels_get", auth |-> <<args.pce_api_key, args.pce_api_secret>>]>>
                \o (IF r = "labels_get_raises" THEN <<>>
                    ELSE <<[op |-> "check_connection"]>>)
         /\ CASE r = "labels_get_raises" -> UncaughtException("labels_get_failed")
              [] r = "connection_fails" -> Exit(1, "connection_failed", TRUE)
              [] OTHER -> pc' = "build_label_maps"
                          /\ UNCHANGED <<exit_status, outcome, reported>>
    /\ UNCHANGED <<prog, appsVars, csvVars>>

\* export_data, line 138: build_label_maps
CsvBuildLabelMaps ==
    /\ prog = "csv" /\ pc = "build_label_maps"
    /\ events' = Append(events, [op |-> "labels_get",
                                 auth |-> <<args.pce_api_key, args.pce_api_secret>>])
    /\ \E raises \in BOOLEAN :
         IF raises
         THEN /\ UncaughtException("labels_get_failed")
              /\ UNCHANGED <<label_cache, label_href_map, value_href_map>>
         ELSE LET maps == BuildLabelMaps(pce_labels,
                              [label_cache |-> label_cache,
                               label_href_map |-> label_href_map,
                               value_href_map |-> value_href_map])
              IN  /\ label_cache' = maps.label_cache
                  /\ label_href_map' = maps.label_href_map
                  /\ value_href_map' = maps.value_href_map
                  /\ pc' = "build_query"
                  /\ UNCHANGED <<exit_status, outcome, reported>>
    /\ UNCHANGED <<prog, appsVars, args, pce_labels, query_file, traffic_query,
                   result, idx, data, csv_file>>

\* export_data, lines 139-140: load_query_config and build_traffic_query
CsvBuildQuery ==
    /\ prog = "csv" /\ pc = "build_query"
    /\ IF query_file = NoFile
       THEN /\ UncaughtException("query_config_error")
            /\ UNCHANGED traffic_query
       ELSE LET q == BuildTrafficQuery(query_file, value_href_map)
            IN  IF q.raised
                THEN /\ UncaughtException("query_build_failed")
                     /\ UNCHANGED traffic_query
                ELSE /\ traffic_query' = q
                     /\ pc' = "query"
                     /\ UNCHANGED <<exit_status, outcome, reported>>
    /\ UNCHANGED <<prog, events, appsVars, args, pce_labels, query_file, label_cache,
                   label_href_map, value_href_map, result, idx, data, csv_file>>

\* export_data, lines 142-150: get_traffic_flows_async, data = set()
CsvQuery ==
    /\ prog = "csv" /\ pc = "query"
    /\ events' = Append(events, [op |-> "traffic_query", query |-> traffic_query])
    /\ \/ /\ UncaughtException("traffic_query_failed")
          /\ UNCHANGED <<result, idx, data>>
       \/ /\ \E flows \in SeqsUpTo(Flows, MaxFlows) : result' = flows
          /\ idx' = 0
          /\ data' = <<>>
          /\ pc' = "process"
          /\ UNCHANGED <<exit_status, outcome, reported>>
    /\ UNCHANGED <<prog, appsVars, args, pce_labels, query_file, label_cache,
                   label_href_map, value_href_map, traffic_query, csv_file>>

\* export_data, lines 151-154: one iteration of the loop over result
CsvProcessFlow ==
    /\ prog = "csv" /\ pc = "process" /\ idx < Len(result)
    /\ data' = AddFlow(data, result[idx + 1], args, label_cache)
    /\ idx' = idx + 1
    /\ UNCHANGED <<prog, pc, exit_status, outcome, reported, events, appsVars, args,
                   pce_labels, query_file, label_cache, label_href_map, value_href_map,
                   traffic_query, result, csv_file>>

\* export_data, lines 156-166, and main, line 203: write the CSV and exit
CsvWrite ==
    /\ prog = "csv" /\ pc = "process" /\ idx = Len(result)
    /\ \E io \in {"ok", "open_error", "write_error"}, rows \in Orders(data),
          k \in 0..Len(data) :
         CASE io = "open_error" ->
                /\ k = 0
                /\ UNCHANGED csv_file
                /\ UncaughtException("file_write_error")
           [] io = "write_error" ->
                /\ k < Len(data)
                /\ csv_file' = [exists |-> TRUE, header |-> Header, rows |-> SubSeq(rows, 1, k)]
                /\ UncaughtException("file_write_error")
           [] OTHER ->
                /\ k = 0
                /\ csv_file' = [exists |-> TRUE, header |-> Header, rows |-> rows]
                /\ Exit(0, "ok", FALSE)
    /\ UNCHANGED <<prog, events, appsVars, args, pce_labels, query_file, label_cache,
                   label_href_map, value_href_map, traffic_query, result, idx, data>>

(***************************************************************************)
(* The specification: one run of one of the two programs.                  *)
(***************************************************************************)
OldAppsFile == [exists |-> TRUE, lines |-> <<<<"o", "l", "d">>>>]

Init ==
    /\ prog \in {"apps", "csv"}
    /\ pc = "start"
    /\ exit_status = 0
    /\ outcome = "running"
    /\ reported = FALSE
    /\ events = <<>>
    /\ IF prog = "apps"
       THEN env \in Envs /\ cli \in Clis /\ apps_file \in {NoFile, OldAppsFile}
       ELSE env = [n \in EnvNames |-> None]
            /\ cli = [api_key |-> None, api_secret |-> None]
            /\ apps_file = NoFile
    /\ auth = <<None, None>>
    /\ job_location = None
    /\ job_status = NoObj
    /\ app_names = <<>>
    /\ IF prog = "csv"
       THEN args \in CsvArgs /\ pce_labels \in LabelLists
            /\ query_file \in QueryFiles \cup {NoFile}
       ELSE args = [pce_api_key |-> EmptyStr, pce_api_secret |-> EmptyStr,
                    algosec_label |-> AppKey, label_concat |-> Dash]
            /\ pce_labels = <<>>
            /\ query_file = NoFile
    /\ label_cache = EmptyMap
    /\ label_href_map = EmptyMap
    /\ value_href_map = EmptyMap
    /\ traffic_query = NoObj
    /\ result = <<>>
    /\ idx = 0
    /\ data = <<>>
    /\ csv_file = NoFile

Next ==
    \/ AppsLoad
    \/ AppsSubmit
    \/ AppsCheckStatus
    \/ AppsSleep
    \/ AppsFetch
    \/ AppsWrite
    \/ CsvSetup
    \/ CsvBuildLabelMaps
    \/ CsvBuildQuery
    \/ CsvQuery
    \/ CsvProcessFlow
    \/ CsvWrite

Spec == Init /\ [][Next]_vars

(***************************************************************************)
(* export_illumio_apps against a server that may keep a job in progress    *)
(* for ever. The interpreter runs the process on: a request returns (the   *)
(* answer or a transport error) and time.sleep returns.                    *)
(***************************************************************************)
PollInit == Init /\ prog = "apps"

PollNext ==
    \/ AppsLoad
    \/ AppsSubmit
    \/ AppsCheckStatusUncapped
    \/ AppsSleep
    \/ AppsFetch
    \/ AppsWrite

PollSpec == PollInit /\ [][PollNext]_vars /\ WF_vars(PollNext)

(***************************************************************************)
(* Properties.                                                             *)
(***************************************************************************)
Ops(name) == {i \in 1..Len(events) : events[i].op = name}

Last(S) == CHOOSE i \in S : \A j \in S : j <= i

\* the last status check answered 200 with status 'done'
EndsInDone ==
    /\ Ops("status") # {}
    /\ events[Last(Ops("status"))].ok
    /\ events[Last(Ops("status"))].json.status = "done"

(* C1: in export_illumio_apps, get_job_results is called at most once; a    *)
(* call comes after the last status check, that check answered 'done', and *)
(* the call's argument is the result.href of that answer; and a finished    *)
(* run has made the call exactly when its status checks ended in 'done'     *)
(* (never when they ended in 'failed' or in a failed check).               *)
C1_FetchOnceAfterDone ==
    prog = "apps" =>
        /\ Cardinality(Ops("fetch")) <= 1
        /\ \A f \in Ops("fetch") :
              /\ EndsInDone
              /\ f > Last(Ops("status"))
              /\ events[f].url = events[Last(Ops("status"))].json.result.href
        /\ pc = "exit" => (Cardinality(Ops("fetch")) = 1 <=> EndsInDone)

\* a finished run whose status answers were in progress, in progress, done
C1_Witness ==
    /\ prog = "apps" /\ pc = "exit"
    /\ Cardinality(Ops("status")) = 3
    /\ \E i, j, k \in Ops("status") :
          /\ i < j /\ j < k
          /\ events[i].ok /\ events[i].json.status \in InProgress
          /\ events[j].ok /\ events[j].json.status \in InProgress
          /\ events[k].ok /\ events[k].json.status = "done"
          /\ events[k].json.result.href = <<"/", "r", "2">>
    /\ Cardinality(Ops("fetch")) = 1

Failures ==
    {"config_error", "submit_failed", "status_check_failed", "job_failed",
     "fetch_failed", "file_write_error", "labels_get_failed", "connection_failed",
     "query_config_error", "query_build_failed", "traffic_query_failed"}

(* C2: a finished run of either program has exit status 0 when it           *)
(* succeeded and a non-zero exit status when it ended in a failure.         *)
C2_ExitStatus ==
    pc = "exit" =>
        /\ outcome = "ok" => exit_status = 0
        /\ outcome \in Failures => exit_status # 0

(* C3: in export_illumio_apps, when PCE_API_KEY and PCE_API_SECRET are      *)
(* unset and -k and -s are both given, a finished run has sent the submit   *)
(* request, authenticated with the command-line key and secret.            *)
C3_CliCredentialsSuffice ==
    (/\ prog = "apps" /\ pc = "exit"
     /\ env["PCE_API_KEY"] = None /\ env["PCE_API_SECRET"] = None
     /\ \A n \in {"PCE_FQDN", "PCE_ORG", "PCE_PORT"} : env[n] # EmptyStr
     /\ Truthy(cli.api_key) /\ Truthy(cli.api_secret))
    => \E i \in Ops("submit") : events[i].auth = <<cli.api_key, cli.api_secret>>

\* the key and secret a run ends up with, after environment and command line
EffectiveCredentials ==
    IF prog = "apps"
    THEN <<IF Truthy(cli.api_key) THEN cli.api_key ELSE env["PCE_API_KEY"],
           IF Truthy(cli.api_secret) THEN cli.api_secret ELSE env["PCE_API_SECRET"]>>
    ELSE <<args.pce_api_key, args.pce_api_secret>>

(* C4: in both programs, when the API key or the API secret is missing, no  *)
(* request is sent to the PCE, and the finished run has reported an error.  *)
C4_NoRequestWithoutCredentials ==
    (~Truthy(EffectiveCredentials[1]) \/ ~Truthy(EffectiveCredentials[2]))
    => /\ events = <<>>
       /\ pc = "exit" => reported

\* a string of one of the four filter lists has no entry in the map
Unresolvable(query_config, map) ==
    \E i \in 1..4 :
        \E j \in 1..Len(PopList(query_config, FilterNames[i])) :
            PopList(query_config, FilterNames[i])[j] \notin DOMAIN map

\* build_traffic_query has been called in this run
QueryBuilt ==
    /\ prog = "csv"
    /\ query_file # NoFile
    /\ \/ pc \in {"query", "process"}
       \/ pc = "exit" /\ outcome \in {"query_build_failed", "traffic_query_failed",
                                      "file_write_error", "ok"}

(* C5: in export_illumio_csv, when build_traffic_query is called with a     *)
(* query config one of whose filter strings has no entry in value_href_map, *)
(* it raises: the run ends there with a non-zero exit status, no traffic    *)
(* query is sent and no CSV file is written.                               *)
C5_UnresolvableLabelAborts ==
    (QueryBuilt /\ Unresolvable(query_file, value_href_map))
    => /\ pc = "exit" /\ outcome = "query_build_failed" /\ exit_status # 0
       /\ Ops("traffic_query") = {}
       /\ traffic_query = NoObj
       /\ csv_file = NoFile

\* the run ended in build_traffic_query on a string of exclude_destinations,
\* the strings of the lists before it being resolved
C5_Witness ==
    /\ QueryBuilt /\ outcome = "query_build_failed"
    /\ PopList(query_file, "include_sources") # <<>>
    /\ ~ResolveAll(value_href_map, PopList(query_file, "include_sources")).raised
    /\ ResolveAll(value_href_map, PopList(query_file, "exclude_destinations")).raised

\* the destination carries labels and none of them is in label_cache
LabelDictEmpty(flow) ==
    /\ flow.dst.workload # NoObj
    /\ flow.dst.workload.labels # <<>>
    /\ CachedLabels(flow.dst.workload.labels, label_cache) = <<>>

(* C6: in export_illumio_csv, a processed flow whose destination's          *)
(* label_dict is empty, so that every segment of its application name is    *)
(* "Unknown", yields no row, whatever the wanted keys and the separator.    *)
C6_AllUnknownDropped ==
    prog = "csv" =>
        \A i \in 1..idx :
            LabelDictEmpty(result[i]) => ProcessFlow(result[i], args, label_cache) = None

NoDuplicates(s) == \A i, j \in 1..Len(s) : s[i] = s[j] => i = j

(* C7: in export_illumio_csv, data never holds two equal rows, it is the    *)
(* export set of the flows processed so far, and, once the loop has         *)
(* processed result, feeding any flow of result a second time leaves the    *)
(* export set as it is, elements and size.                                  *)
C7_ExportSetDeduplicates ==
    (prog = "csv" /\ pc \in {"process", "exit"}) =>
        /\ NoDuplicates(data)
        /\ data = BuildExportSet(SubSeq(result, 1, idx), args, label_cache)
        /\ (pc = "process" /\ idx = Len(result)) =>
              \A i \in 1..Len(result) :
                  LET twice == BuildExportSet(Append(result, result[i]), args, label_cache)
                  IN  /\ Range(twice) = Range(data)
                      /\ Len(twice) = Len(data)
                      /\ Len(BuildExportSet(<<result[i], result[i]>>, args, label_cache)) <= 1

\* a finished run fed the same logical flow twice and wrote one row
C7_Witness ==
    /\ prog = "csv" /\ pc = "exit" /\ outcome = "ok"
    /\ Len(result) = 2 /\ idx = 2
    /\ ProcessFlow(result[1], args, label_cache) # None
    /\ ProcessFlow(result[2], args, label_cache) = ProcessFlow(result[1], args, label_cache)
    /\ Len(data) = 1
    /\ Len(csv_file.rows) = 1

\* build_label_maps has run
MapsBuilt ==
    /\ prog = "csv"
    /\ \/ pc \in {"build_query", "query", "process"}
       \/ pc = "exit" /\ outcome \in {"query_config_error", "query_build_failed",
                                      "traffic_query_failed", "file_write_error", "ok"}

PairsDistinct(labels) ==
    \A i, j \in 1..Len(labels) :
        (labels[i].key = labels[j].key /\ labels[i].value = labels[j].value) => i = j

CompositesDistinct(labels) ==
    \A i, j \in 1..Len(labels) :
        KeyEqualsValue(labels[i].key, labels[i].value)
            = KeyEqualsValue(labels[j].key, labels[j].value) => i = j

\* the look-up of build_traffic_query, lines 69-72, for one string
LookUp(string) == ResolveAll(value_href_map, <<string>>)

Found(href) == [raised |-> FALSE, hrefs |-> <<href>>]

(* C8, as claimed: for a label set whose (key, value) pairs are pairwise    *)
(* distinct, looking "k=v" up in value_href_map gives the href of the label *)
(* with key k and value v, for every label of the set.                      *)
C8_LookupFindsLabel ==
    (MapsBuilt /\ PairsDistinct(pce_labels)) =>
        \A i \in 1..Len(pce_labels) :
            LookUp(KeyEqualsValue(pce_labels[i].key, pce_labels[i].value))
                = Found(pce_labels[i].href)

(* C8, amended: looking "k=v" up in value_href_map gives the href of the    *)
(* last label of the set whose key and value spell that string; so for a    *)
(* label set whose strings "k=v" are pairwise distinct it gives the href of *)
(* the label with key k and value v, for every label of the set.            *)
C8_LookupFindsLastSpelling ==
    MapsBuilt =>
        /\ \A i \in 1..Len(pce_labels) :
              LET string == KeyEqualsValue(pce_labels[i].key, pce_labels[i].value)
                  same == {j \in 1..Len(pce_labels) :
                              KeyEqualsValue(pce_labels[j].key, pce_labels[j].value) = string}
              IN  LookUp(string) = Found(pce_labels[Last(same)].href)
        /\ CompositesDistinct(pce_labels) =>
              \A i \in 1..Len(pce_labels) :
                  LookUp(KeyEqualsValue(pce_labels[i].key, pce_labels[i].value))
                      = Found(pce_labels[i].href)

\* the maps are built from a set with distinct strings, one of a value with '='
C8_Witness ==
    /\ MapsBuilt
    /\ CompositesDistinct(pce_labels)
    /\ \E i \in 1..Len(pce_labels) :
          /\ "=" \in Range(pce_labels[i].value)
          /\ value_href_map[KeyEqualsValue(pce_labels[i].key, pce_labels[i].value)]
                = pce_labels[i].href

\* the wanted keys of the two --algosec-label values of CsvArgs
WantedKeys(a) == IF a.algosec_label = AppKey THEN <<AppKey>> ELSE <<AppKey, EnvKey>>

\* the labels of label_cache the workload refers to
ResolvedLabels(workload) ==
    {label_cache[workload.labels[i].href] :
        i \in {j \in 1..Len(workload.labels) : workload.labels[j].href \in DOMAIN label_cache}}

\* the value of the workload's label with this key, or "Unknown"
Segment(workload, key) ==
    IF \E l \in ResolvedLabels(workload) : l.key = key
    THEN (CHOOSE l \in ResolvedLabels(workload) : l.key = key).value
    ELSE Unknown

\* the segments of the wanted keys, one or two, with the separator between
ExpectedAppName(workload, a) ==
    IF Len(WantedKeys(a)) = 1
    THEN Segment(workload, WantedKeys(a)[1])
    ELSE Segment(workload, WantedKeys(a)[1]) \o a.label_concat
            \o Segment(workload, WantedKeys(a)[2])

(* C9: for every processed flow whose destination carries at least one      *)
(* label, _get_app_name returns len(wantedKeys) segments joined by the      *)
(* separator, segment i being the value of the label with key wantedKeys[i] *)
(* or "Unknown"; a row written for the flow carries that name.              *)
C9_AppNameSegments ==
    (prog = "csv" /\ pc \in {"process", "exit"}) =>
        \A i \in 1..idx :
            LET workload == result[i].dst.workload
                row == ProcessFlow(result[i], args, label_cache)
            IN  (workload # NoObj /\ workload.labels # <<>>) =>
                    /\ GetAppName(workload, args, label_cache)
                          = ExpectedAppName(workload, args)
                    /\ row # None =>
                          (row[7] = ExpectedAppName(workload, args) /\ row \in Range(data))

\* wantedKeys = [app, env], label_dict = {app: web}, separator "-": "web-Unknown"
C9_Witness ==
    /\ prog = "csv" /\ pc = "process"
    /\ args.algosec_label = AppEnv /\ args.label_concat = Dash
    /\ \E i \in 1..idx :
          /\ result[i].dst.workload # NoObj
          /\ Len(result[i].dst.workload.labels) = 1
          /\ ResolvedLabels(result[i].dst.workload) = {LabelApp}
    /\ \E r \in Range(data) : r[7] = <<"w", "e", "b", "-", "U", "n", "k", "n", "o", "w", "n">>

\* the protocol and port strings of the services of Flows
ExpectedProto(proto) ==
    CASE proto = 6 -> <<"t", "c", "p">>
      [] proto = 17 -> <<"u", "d", "p">>
      [] proto = 1 -> <<"i", "c", "m", "p">>
      [] proto = 47 -> <<"4", "7">>

ExpectedPort(port) ==
    CASE port = PyInt(443) -> <<"4", "4", "3">>
      [] port = PyInt(53) -> <<"5", "3">>
      [] port = PyInt(10) -> <<"1", "0">>
      [] port = None -> <<"N", "o", "n", "e">>

(* C10: for every flow of result, _get_service_info returns "" when the     *)
(* service is absent or its port is 0 and "<proto>/<port>" otherwise, proto *)
(* being tcp for 6, udp for 17, icmp for 1 and the number for any other     *)
(* protocol; a row written for the flow carries that string.               *)
C10_ServiceInfo ==
    prog = "csv" =>
        \A i \in 1..Len(result) :
            LET service == result[i].service
                info == GetServiceInfo(service)
                row == ProcessFlow(result[i], args, label_cache)
            IN  /\ IF service = NoObj THEN info = EmptyStr
                   ELSE IF service.port = PyInt(0) THEN info = EmptyStr
                   ELSE info = ExpectedProto(service.proto) \o <<"/">>
                                  \o ExpectedPort(service.port)
                /\ (i <= idx /\ row # None) => (row[5] = info /\ info # EmptyStr)

\* rows for proto 6, port 443 and for proto 47, port 10 are in data
C10_Witness ==
    /\ prog = "csv" /\ pc = "process" /\ idx = Len(result)
    /\ \E r \in Range(data) : r[5] = <<"t", "c", "p", "/", "4", "4", "3">>
    /\ \E r \in Range(data) : r[5] = <<"4", "7", "/", "1", "0">>

\* how many elements of the sequence equal x
Count(s, x) == Cardinality({i \in 1..Len(s) : s[i] = x})

\* the payload of the fetch, when it was answered with HTTP 200
Payload200 ==
    IF \E f \in Ops("fetch") : ~events[f].resp.err /\ events[f].resp.code = 200
    THEN events[Last(Ops("fetch"))].resp.json
    ELSE <<>>

FetchAnswered200 == \E f \in Ops("fetch") : ~events[f].resp.err /\ events[f].resp.code = 200

\* lexicographic order of two strings, character by character
LexLessEq(a, b) ==
    \/ a = b
    \/ \E n \in 0..Len(a) :
          /\ n <= Len(b)
          /\ \A i \in 1..n : a[i] = b[i]
          /\ \/ n = Len(a) /\ n < Len(b)
             \/ n < Len(a) /\ n < Len(b) /\ Ord(a[n + 1]) < Ord(b[n + 1])

(* C11: in export_illumio_apps, after a fetch answered with HTTP 200 the    *)
(* run does not fail on records without 'value'; the names it goes on to    *)
(* write are the 'value' fields of the records that have one, each as often *)
(* as it occurs, in lexicographic order, and a write that succeeds leaves   *)
(* exactly these as the lines of the file (none is written when no record   *)
(* has a 'value').                                                         *)
C11_SortedValuesWritten ==
    (prog = "apps" /\ FetchAnswered200) =>
        \A payload \in {Payload200},
           names \in {IF pc = "exit" /\ outcome = "no_app_names" THEN <<>> ELSE app_names} :
            /\ events[Last(Ops("fetch"))].ok
            /\ pc \in {"write", "exit"}
            /\ pc = "exit" => outcome \in {"ok", "file_write_error", "no_app_names"}
            /\ \A i \in 1..Len(payload) :
                  "value" \in DOMAIN payload[i] =>
                      Count(names, payload[i].value)
                          = Cardinality({j \in 1..Len(payload) :
                                /\ "value" \in DOMAIN payload[j]
                                /\ payload[j].value = payload[i].value})
            /\ \A v \in Range(names) :
                  \E i \in 1..Len(payload) :
                      "value" \in DOMAIN payload[i] /\ payload[i].value = v
            /\ \A i, j \in 1..Len(names) : i < j => LexLessEq(names[i], names[j])
            /\ (pc = "exit" /\ outcome = "ok") =>
                  (apps_file.exists /\ apps_file.lines = names /\ names # <<>>)

\* a payload [web, no value, db] in that order was written as db, web
C11_Witness ==
    /\ prog = "apps" /\ pc = "exit" /\ outcome = "ok"
    /\ FetchAnswered200
    /\ \E i, j \in 1..Len(Payload200) :
          /\ i < j
          /\ "value" \in DOMAIN Payload200[i] /\ Payload200[i].value = Web
          /\ "value" \in DOMAIN Payload200[j] /\ Payload200[j].value = <<"d", "b">>
    /\ \E i \in 1..Len(Payload200) : "value" \notin DOMAIN Payload200[i]
    /\ apps_file.lines = <<<<"d", "b">>, Web>>

\* the HTTP requests of export_illumio_apps
Requests == {i \in 1..Len(events) : events[i].op \in {"submit", "status", "fetch"}}

\* a transport error, or a status other than 202 (submit) or 200
RequestFailed(e) ==
    \/ e.resp.err
    \/ e.resp.code # (IF e.op = "submit" THEN 202 ELSE 200)

\* a status check that observed 'done' or 'failed'
Terminal(e) ==
    /\ e.op = "status" /\ ~RequestFailed(e)
    /\ e.json.status \in {"done", "failed"}

(* C12: in a run of export_illumio_apps the submit request is sent at most  *)
(* once and the result fetch at most once; a request that ends in a         *)
(* transport error or a non-success status is the last request and the run  *)
(* has ended; no status check follows one that observed 'done' or 'failed'. *)
C12_NoRetryNoRequestAfterFailure ==
    prog = "apps" =>
        /\ Cardinality(Ops("submit")) <= 1
        /\ Cardinality(Ops("fetch")) <= 1
        /\ \A i \in Requests :
              RequestFailed(events[i]) =>
                  /\ pc = "exit"
                  /\ \A j \in Requests : j <= i
        /\ \A i \in Ops("status") :
              Terminal(events[i]) => \A j \in Ops("status") : j <= i

\* a status check failed after an in-progress one, and the run ended there
C12_Witness ==
    /\ prog = "apps" /\ pc = "exit"
    /\ Cardinality(Ops("submit")) = 1
    /\ Cardinality(Ops("status")) = 2
    /\ RequestFailed(events[Last(Ops("status"))])
    /\ Last(Requests) = Last(Ops("status"))

\* main has reached the poll loop
EnteredLoop ==
    /\ prog = "apps"
    /\ pc \notin {"start", "submit"}
    /\ outcome \notin {"config_error", "submit_failed"}

InLoop == prog = "apps" /\ pc \in {"poll", "sleep"}

\* a status check has observed 'done' or 'failed', or has failed
Observed ==
    \/ outcome = "status_check_failed"
    \/ job_status # NoObj /\ job_status.status \in {"done", "failed"}

\* a status check that is answered in-progress and goes on to sleep
PollsOn == AppsCheckStatusUncapped /\ pc' = "sleep"

(* C13: once export_illumio_apps.main has entered its poll loop it is out   *)
(* of the loop exactly when a status check has observed 'done' or 'failed'  *)
(* or has failed; however many checks were made, an in-progress answer      *)
(* sends it to sleep and on to the next check (no attempt limit, no         *)
(* timeout); and with the process running on, every sleep is followed by a  *)
(* check and every check by a sleep or by one of the three observations,    *)
(* so the loop ends if and only if such an observation occurs.              *)
C13_LoopEndsOnlyByObservation ==
    /\ [](EnteredLoop => (InLoop <=> ~Observed))
    /\ []((prog = "apps" /\ pc = "poll") => ENABLED PollsOn)
    /\ [][(prog = "apps" /\ pc = "sleep") => pc' = "poll"]_vars
    /\ (prog = "apps" /\ pc = "sleep") ~> (pc = "poll")
    /\ (prog = "apps" /\ pc = "poll") ~> (pc = "sleep" \/ Observed)

\* the loop is at its next check after more than MaxPolls in-progress answers
C13_Witness ==
    /\ InLoop /\ pc = "poll" /\ ~Observed
    /\ StatusChecks > MaxPolls
    /\ \A i \in Ops("status") : events[i].ok /\ events[i].json.status \in InProgress

(* C14: in export_illumio_apps every sleep lasts 5 seconds and comes        *)
(* directly after a status check that was answered in-progress (so none     *)
(* comes before the first check or after a 'done' or 'failed' observation), *)
(* and every status check but the first comes directly after one sleep that *)
(* itself follows the previous check: exactly one sleep lies between two    *)
(* consecutive checks.                                                      *)
C14_OneSleepBetweenChecks ==
    prog = "apps" =>
        /\ \A i \in Ops("sleep") :
              /\ events[i].seconds = 5
              /\ i > 1 /\ events[i - 1].op = "status"
              /\ ~RequestFailed(events[i - 1]) /\ ~Terminal(events[i - 1])
        /\ \A i \in Ops("status") :
              (\E j \in Ops("status") : j < i) =>
                  /\ events[i - 1].op = "sleep"
                  /\ events[i - 2].op = "status"
        /\ \A i \in Ops("status") :
              Terminal(events[i]) => \A j \in Ops("sleep") : j < i
        /\ pc = "sleep" => events[Len(events)].op = "status"

\* three checks with a sleep between each two, the last one observing 'done'
C14_Witness ==
    /\ prog = "apps" /\ pc = "fetch"
    /\ Cardinality(Ops("status")) = 3
    /\ Cardinality(Ops("sleep")) = 2
    /\ Terminal(events[Len(events)])

\* the flows process_flow has been applied to, while export_data is in its
\* loop over the flows or has just left it (nothing later changes data)
Processed == IF prog = "csv" /\ pc = "process" THEN 1..idx ELSE {}

\* checks 1 and 2 of process_flow pass
ServiceAndAppPass(flow) ==
    /\ GetServiceInfo(flow.service) # EmptyStr
    /\ GetAppName(flow.dst.workload, args, label_cache) \notin {EmptyStr, Unknown}

\* the workload's hostname, empty or not, and the address only for an
\* endpoint without workload
DisplayName(endpoint) ==
    IF endpoint.workload = NoObj THEN endpoint.ip ELSE endpoint.workload.hostname

\* the hostname when there is a non-empty one, the address otherwise
DisplayNameOrAddress(endpoint) ==
    IF endpoint.workload = NoObj \/ endpoint.workload.hostname = EmptyStr
    THEN endpoint.ip
    ELSE endpoint.workload.hostname

(* C15, amended: an endpoint's display name is its workload's hostname,     *)
(* empty or not, when it has a workload, and its raw address only when it   *)
(* has none; a flow that passes the service and application checks is       *)
(* dropped exactly when one of the two display names is empty, and a row    *)
(* carries the two display names.                                           *)
C15_NameIsHostnameOfWorkload ==
    \A i \in Processed :
        LET row == ProcessFlow(result[i], args, label_cache)
        IN  ServiceAndAppPass(result[i]) =>
                /\ row = None <=> \/ DisplayName(result[i].src) = EmptyStr
                                  \/ DisplayName(result[i].dst) = EmptyStr
                /\ row # None =>
                      /\ row[2] = DisplayName(result[i].src)
                      /\ row[4] = DisplayName(result[i].dst)
                      /\ row \in Range(data)

(* C15, as claimed: the display name falls back to the raw address          *)
(* whenever no non-empty hostname is resolved, and a flow that passes the   *)
(* service and application checks is dropped exactly when one of the        *)
(* display names so defined is empty.                                       *)
C15_NameFallsBackToAddress ==
    \A i \in Processed :
        LET row == ProcessFlow(result[i], args, label_cache)
        IN  ServiceAndAppPass(result[i]) =>
                (row = None <=> \/ DisplayNameOrAddress(result[i].src) = EmptyStr
                                \/ DisplayNameOrAddress(result[i].dst) = EmptyStr)

\* a flow with a good service and application name whose destination
\* workload has an empty hostname was dropped, and one without source
\* workload was exported under the source address
C15_Witness ==
    /\ \E i \in Processed :
          /\ ServiceAndAppPass(result[i])
          /\ result[i].dst.workload # NoObj
          /\ result[i].dst.workload.hostname = EmptyStr
          /\ ProcessFlow(result[i], args, label_cache) = None
    /\ \E i \in Processed :
          /\ result[i].src.workload = NoObj
          /\ \E row \in Range(data) : row[1] = result[i].src.ip /\ row[2] = result[i].src.ip

\* the three checks of process_flow, by name
CheckPasses(flow, check) ==
    CASE check = "service" -> GetServiceInfo(flow.service) # EmptyStr
      [] check = "app" ->
            /\ GetAppName(flow.dst.workload, args, label_cache) # EmptyStr
            /\ GetAppName(flow.dst.workload, args, label_cache) # Unknown
      [] check = "names" ->
            /\ DisplayName(flow.src) # EmptyStr
            /\ DisplayName(flow.dst) # EmptyStr

\* (source address, source name, destination address, destination name,
\*  service string, '', application name)
ExpectedRow(flow) ==
    <<flow.src.ip, DisplayName(flow.src), flow.dst.ip, DisplayName(flow.dst),
      GetServiceInfo(flow.service), EmptyStr,
      GetAppName(flow.dst.workload, args, label_cache)>>

\* the six orders of the three checks
CheckOrders ==
    {<<"service", "app", "names">>, <<"service", "names", "app">>,
     <<"app", "service", "names">>, <<"app", "names", "service">>,
     <<"names", "service", "app">>, <<"names", "app", "service">>}

\* the checks made one after the other in the given order, the first that
\* fails dropping the flow; passes[c] tells whether check c passes
RowInOrder(passes, expected, order) ==
    IF ~passes[order[1]] THEN None
    ELSE IF ~passes[order[2]] THEN None
    ELSE IF ~passes[order[3]] THEN None
    ELSE expected

(* C16: process_flow returns a row if and only if the service string is not *)
(* empty, the application name is neither '' nor 'Unknown' and both display *)
(* names (as process_flow computes them) are not empty; the row is (source  *)
(* address, source name, destination address, destination name, service     *)
(* string, '', application name); and making the three checks in any of the *)
(* six orders gives the same outcome.                                       *)
C16_RowIffThreeChecks ==
    \A i \in Processed :
        \A row \in {ProcessFlow(result[i], args, label_cache)},
           passes \in {[c \in {"service", "app", "names"} |-> CheckPasses(result[i], c)]},
           expected \in {ExpectedRow(result[i])} :
            /\ row # None <=> \A c \in {"service", "app", "names"} : passes[c]
            /\ row # None => (row = expected /\ row \in Range(data))
            /\ \A o \in CheckOrders : RowInOrder(passes, expected, o) = row

\* one flow passed the three checks and its row is in the export set;
\* another failed the service check alone and has no row
C16_Witness ==
    /\ \E i \in Processed :
          /\ \A c \in {"service", "app", "names"} : CheckPasses(result[i], c)
          /\ ExpectedRow(result[i]) \in Range(data)
          /\ ExpectedRow(result[i])[6] = EmptyStr
    /\ \E i \in Processed :
          /\ ~CheckPasses(result[i], "service")
          /\ CheckPasses(result[i], "app") /\ CheckPasses(result[i], "names")
          /\ ExpectedRow(result[i]) \notin Range(data)

\* the three maps as build_label_maps makes them of one label list
MapsOf(labels) ==
    BuildLabelMaps(labels, [label_cache |-> EmptyMap, label_href_map |-> EmptyMap,
                            value_href_map |-> EmptyMap])

(* C17: in a run of export_data that has built its label maps, the label    *)
(* set has been fetched from the PCE exactly once, and from then on the     *)
(* three maps are the ones built from that label set.                       *)
C17_LabelsFetchedOnce ==
    MapsBuilt =>
        /\ Cardinality(Ops("labels_get")) = 1
        /\ label_cache = MapsOf(pce_labels).label_cache
        /\ label_href_map = MapsOf(pce_labels).label_href_map
        /\ value_href_map = MapsOf(pce_labels).value_href_map

\* submit was answered 202 with a Location, a status check observed 'done',
\* the fetch was answered 200 and a record of its payload carries 'value'
OnWritePath ==
    /\ \E i \in Ops("submit") :
          /\ ~RequestFailed(events[i])
          /\ events[i].resp.location # None /\ events[i].resp.location # EmptyStr
    /\ \E i \in Ops("status") : Terminal(events[i]) /\ events[i].json.status = "done"
    /\ FetchAnswered200
    /\ \E i \in 1..Len(Payload200) : "value" \in DOMAIN Payload200[i]

(* C18: a step of export_illumio_apps changes the labels file only on the   *)
(* path where the submit was answered 202 with a Location, a status check   *)
(* observed 'done', the fetch was answered 200 and at least one record      *)
(* carried a 'value'; on every other path, a 200 fetch without any 'value'  *)
(* among them, the file stays as it was.                                    *)
C18_FileWrittenOnlyOnWritePath ==
    [][(prog = "apps" /\ apps_file' # apps_file) => (pc = "write" /\ OnWritePath)]_vars

\* the run is over, the old file has been replaced by the fetched names
C18_Witness ==
    /\ prog = "apps" /\ pc = "exit" /\ OnWritePath
    /\ apps_file.exists /\ apps_file # OldAppsFile
    /\ apps_file.lines = app_names

\* the destination has a workload that carries at least one label
DestinationLabelled(flow) ==
    flow.dst.workload # NoObj /\ flow.dst.workload.labels # <<>>

(* C19: every row of the export set of export_data is the row of a          *)
(* processed flow whose destination has a workload with at least one label, *)
(* and its destination name is that workload's hostname, not the raw        *)
(* destination address; a flow whose destination has no workload, or a      *)
(* workload without labels, yields no row, whatever its service and names.  *)
C19_RowsHaveLabelledDestination ==
    (prog = "csv" /\ pc = "process") =>
        /\ \A row \in Range(data) :
              \E i \in Processed :
                  /\ row = ProcessFlow(result[i], args, label_cache)
                  /\ DestinationLabelled(result[i])
                  /\ row[3] = result[i].dst.ip
                  /\ row[4] = result[i].dst.workload.hostname
                  /\ row[4] # row[3]
        /\ \A i \in Processed :
              ~DestinationLabelled(result[i]) =>
                  ProcessFlow(result[i], args, label_cache) = None

\* of two flows with a good service and good names, the one to a workload
\* without labels left no row and the one to a labelled workload left its row
C19_Witness ==
    /\ prog = "csv" /\ pc = "process" /\ idx = 2 /\ Len(data) = 1
    /\ \E i \in Processed :
          /\ result[i].dst.workload # NoObj /\ result[i].dst.workload.labels = <<>>
          /\ CheckPasses(result[i], "service") /\ CheckPasses(result[i], "names")
    /\ \E i \in Processed :
          /\ DestinationLabelled(result[i])
          /\ data[1][4] = result[i].dst.workload.hostname

=============================================================================
